---- MODULE Spec2Model ----
(***************************************************************************)
(* Model of the agent pipeline orchestrator                                *)
(* (src/pipeline/orchestrator_cli/runner.py, manifest.py, __main__.py)     *)
(* and of the tools it drives: the graph publisher                         *)
(* (src/pipeline/agents/agent_e.py, src/arangodb/client.py), the outline   *)
(* quality gate (src/pipeline/agents/agent_b/quality_gate.py), the         *)
(* compiler (src/pipeline/agents/agent_c_v2/compiler.py), the QA           *)
(* reviewer (src/pipeline/agents/agent_d/reviewer.py) and the batch        *)
(* runner (src/pipeline/run_batch.py).  Each tool has its                  *)
(* own specification over the shared variables; the variables of the       *)
(* components a specification does not run stay at rest.                   *)
(*                                                                         *)
(* Orchestrator: one action per branch of the loop of                      *)
(* OrchestratorRunner.run; an action is a whole loop iteration (the step   *)
(* function, _record_step, _add_step and the halt logic).                  *)
(* manifest.json is written in place by Path.write_text, which truncates   *)
(* the file and then writes the text: manifestFile holds the successive    *)
(* contents the file went through during the last action, its last element *)
(* being the content now on disk and its first the content before the     *)
(* action.                                                                 *)
(* An outline file is represented by the verdict run_gate gives on its     *)
(* content ("PASS" / "FAIL"), or "absent".  Timestamps, durations and      *)
(* artifact lists of a StepRecord are left out: no branch reads them.      *)
(***************************************************************************)
EXTENDS Integers, Sequences, FiniteSets, TLC

\* ---------------------------------------------------------------- bounds
MaxSteps == 3

MaxStages == 2

MaxPerStage == 1

MaxPublishes == 2

MaxEdges == 2

MaxGateStages == 2

MaxItems == 2

MaxCompiles == 2

MaxIssues == 3

MaxLlmIssues == 2

MaxBooks == 3

\* ------------------------------------------------------------- constants
ALLOWED_STEPS == {"B", "C", "D", "Gate", "G", "E", "F"}

DefaultSteps == <<"B", "C", "D", "Gate", "G", "E", "F">>

SkippableSteps_Wide == {"G", "E", "F"}

SkippableSteps == {"G", "E"}

ExitSuccess == 0

ExitGateFail == 2

ExitRuntimeFail_AsGateFail == ExitGateFail

ExitRuntimeFail == 1

NULL == "null"

\* a file just truncated by open(path, "w"): no text, so no JSON value in it
EMPTY == [valid_json |-> FALSE, steps |-> <<>>,
          qa |-> [approved |-> "null", blockers |-> "null", warnings |-> "null",
                  gate_status |-> "null"]]

VARIABLES
    steps,              \* cfg.steps
    require_gate_pass,  \* cfg.require_gate_pass
    skip_qa_for_e,      \* cfg.skip_qa_for_e (--skip-qa)
    validate_defined,   \* whether agent_d.reviewer provides validate_methodology
    idx,                \* position of the loop "for s in steps" (1-based)
    pc,                 \* "run" while run() is in its loop, "done" after return
    manifest,           \* self.manifest (in memory): steps, qa
    manifestFile,       \* contents of qa/runs/<run_id>/manifest.json over the last action
    finalFile,          \* reason in qa/runs/<run_id>/final.json, or "absent"
    exitCode,           \* value returned by run(), -1 before it returns
    gateReport,         \* status in qa/runs/<run_id>/b_quality_gate.json, or "absent"
    preferredOutline,   \* work/<book_id>/outline_<book_id>.yaml
    legacyOutline,      \* work/<book_id>/outline.yaml (or another outline*.yaml)
    executed,           \* names of the steps whose function was called, in order
    builtOutline,       \* what build_outline returned in this run's step B, "none" before
    compileInput,       \* what compile_methodology found at work/<book_id>/outline.yaml
                        \* in this run's step C, "none" before
    yamlFile,           \* data/methodologies/<id>.yaml, the publisher's input
    qaFile,             \* data/qa/<id>.json, the QA report the publisher reads
    db,                 \* ArangoDB: collection name -> set of documents
    receipt,            \* data/published/<id>.json
    connects,           \* number of db_client.connect() calls
    calls,              \* number of publish_methodology calls; also the clock
    lastCall,           \* arguments and outcome of the last publish_methodology call
    edgeBundle,         \* bundle["edges"] handed to upsert_edges by a direct caller
    gateDoc,            \* the outline document given to the quality gate
    gateResult,         \* what run_gate returned for it: status and error codes
    gateExit,           \* exit code of the quality gate CLI, -1 before it exits
    prevResult,         \* what run_gate returned before the outline was last edited
    rawOutline,         \* work/<book_id>/outline.yaml, the compiler's input
    sourcesMeta,        \* sources/<book_id>/metadata.json ({} without the file)
    compiledYaml,       \* data/methodologies/<book_id>.yaml, the compiler's output
    docFiles,           \* names of the files under docs/methodologies/<book_id>/
    compiles,           \* number of compile_methodology calls; also the clock
    precheckIssues,     \* issues the deterministic prechecks append, in order
    use_llm,            \* --use-llm
    llmReply,           \* the reasoning layer's reply: whether one was parsed, its issues' severities
    qaResult,           \* work/<book_id>/qa/qa_result.json
    reviewExit,         \* exit code of the reviewer CLI, -1 before it exits
    batchArgs,          \* the batch runner's arguments and the sources/ directory
    launched,           \* the orchestrator runs the batch has launched, in order
    batchExit           \* value returned by the batch runner's main(), -1 before

orchVars == <<steps, require_gate_pass, skip_qa_for_e, validate_defined, idx, pc, manifest, manifestFile, finalFile,
              exitCode, gateReport, preferredOutline, legacyOutline, executed,
              builtOutline, compileInput>>

pubVars == <<yamlFile, qaFile, db, receipt, connects, calls, lastCall, edgeBundle>>

gateVars == <<gateDoc, gateResult, gateExit, prevResult>>

compilerVars == <<rawOutline, sourcesMeta, compiledYaml, docFiles, compiles>>

reviewVars == <<precheckIssues, use_llm, llmReply, qaResult, reviewExit>>

batchVars == <<batchArgs, launched, batchExit>>

toolVars == <<gateVars, compilerVars, reviewVars, batchVars>>

vars == <<orchVars, pubVars, toolVars>>

\* ------------------------------------------------------------- helpers
RECURSIVE SeqsUpTo(_, _)
SeqsUpTo(S, n) ==
    IF n = 0 THEN {<<>>}
    ELSE LET shorter == SeqsUpTo(S, n - 1)
         IN  shorter \cup {Append(q, x) : q \in shorter, x \in S}

Last(q) == q[Len(q)]

IsPrefix(p, q) == Len(p) <= Len(q) /\ SubSeq(q, 1, Len(p)) = p

IsSuffix(p, q) == Len(p) <= Len(q) /\ SubSeq(q, Len(q) - Len(p) + 1, Len(q)) = p

\* list.index(x): position of the first occurrence
FirstIndex(q, x) == CHOOSE k \in 1..Len(q) : q[k] = x /\ \A j \in 1..(k - 1) : q[j] # x

StepRecord(name, status, error) == [name |-> name, status |-> status, error |-> error]

QARecord == [approved |-> NULL, blockers |-> NULL, warnings |-> NULL, gate_status |-> NULL]

\* json.dumps(obj): the text of a manifest, a complete JSON value
dumps(obj) == [valid_json |-> TRUE, steps |-> obj.steps, qa |-> obj.qa]

write_json_Lost(obj) == <<>>

\* write_json / Path.write_text: the file is truncated, then the text is written
write_json(obj) == <<EMPTY, dumps(obj)>>

add_step_Prepend(m, rec) == [m EXCEPT !.steps = <<rec>> \o @]

\* _add_step: self.manifest.steps.append(rec)
add_step(m, rec) == [m EXCEPT !.steps = Append(@, rec)]

\* find_outline: the preferred file, else the legacy file, else FileNotFoundError
find_outline(preferred, legacy) ==
    IF preferred # "absent" THEN preferred
    ELSE IF legacy # "absent" THEN legacy
    ELSE "absent"

halt_on_fail_Never(ok) == FALSE

\* "if not ok: write final.json; return 1"
halt_on_fail(ok) == ~ok

gate_blocks_IgnorePolicy(rgp, gate_result) == gate_result # NULL /\ gate_result # "PASS"

gate_blocks_Never(rgp, gate_result) == FALSE

\* the condition of the skip-and-stop path after a Gate step
gate_blocks(rgp, gate_result) == rgp /\ gate_result # NULL /\ gate_result # "PASS"

\* "for remaining in steps[steps.index(s) + 1:]: if remaining in {"G", "E"}"
remaining_steps(st) ==
    SelectSeq(SubSeq(st, FirstIndex(st, "Gate") + 1, Len(st)),
              LAMBDA r : r \in SkippableSteps)

RECURSIVE add_skipped(_, _)
\* one _add_step(status="skipped") per remaining step, in order
add_skipped(m, names) ==
    IF names = <<>> THEN m
    ELSE add_skipped(add_step(m, StepRecord(names[1], "skipped", "Skipped due to Gate FAIL")),
                     Tail(names))

RECURSIVE skipped_writes(_, _)
\* the manifest writes made by these _add_step calls
skipped_writes(m, names) ==
    IF names = <<>> THEN <<>>
    ELSE LET m1 == add_step(m, StepRecord(names[1], "skipped", "Skipped due to Gate FAIL"))
         IN  write_json(m1) \o skipped_writes(m1, Tail(names))

\* ------------------------------------------------- publisher: data model
\* A document id "<collection>/<key>" is the record [col, key].
EntityCollections == <<"methodologies", "stages", "tools", "indicators", "rules">>

EdgeCollections == <<"methodology_has_stage", "stage_uses_tool", "stage_uses_indicator",
                     "stage_has_rule", "indicator_depends_on">>

\* edge collections of the schema whose edges point to glossary terms
TermEdgeCollections == <<"methodology_uses_term", "stage_uses_term">>

\* the order in which a bundle lists its edge collections
EdgeCollectionOrder == EdgeCollections \o TermEdgeCollections

AllCollections ==
    {EntityCollections[k] : k \in 1..Len(EntityCollections)}
        \cup {EdgeCollectionOrder[k] : k \in 1..Len(EdgeCollectionOrder)}
        \cup {"glossary_terms"}

\* keys ArangoDB refuses in a document key or a document handle
IllegalKeys == {"bad key"}

LegalKey(key) == key \notin IllegalKeys

\* an edge dictionary without "_from"
NoId == [col |-> NULL, key |-> NULL]

\* f"{n:03d}"
Pad3(n) ==
    IF n < 10 THEN "00" \o ToString(n)
    ELSE IF n < 100 THEN "0" \o ToString(n)
    ELSE ToString(n)

\* hashlib.md5(text).hexdigest()[:32]: the whole digest; the digest is modelled
\* as a collision-free tag of the text
md5(text) == "md5(" \o text \o ")"

DocId(id) == id.col \o "/" \o id.key

RECURSIVE SumOver(_, _)
SumOver(q, field) == IF q = <<>> THEN 0 ELSE q[1][field] + SumOver(Tail(q), field)

RECURSIVE Flatten(_)
Flatten(qq) == IF qq = <<>> THEN <<>> ELSE qq[1] \o Flatten(Tail(qq))

\* _infer_entity_type
infer_entity_type(col) ==
    CASE col = "methodologies" -> "methodology"
      [] col = "stages" -> "stage"
      [] col = "tools" -> "tool"
      [] col = "indicators" -> "indicator"
      [] col = "rules" -> "rule"
      [] col = "glossary_terms" -> "term"
      [] OTHER -> "entity"

\* load_qa_report: None without the file, else the JSON object
load_qa_report(file) == IF file.exists THEN file ELSE [file EXCEPT !.keys = {}]

check_qa_approval_Truthy(qa_report) ==
    /\ qa_report.exists
    /\ qa_report.keys # {}
    /\ "approved" \in qa_report.keys
    /\ qa_report.approved \notin {"false", "null", "0", "\"\""}

\* check_qa_approval: "if not qa_report" (None or {}), then
\* "qa_report.get('approved') is True"
check_qa_approval(qa_report) ==
    /\ qa_report.exists
    /\ qa_report.keys # {}
    /\ (IF "approved" \in qa_report.keys THEN qa_report.approved ELSE "null") = "true"

\* stage.get('stage_id', f"stage_{stage.get('order', 1):03d}")
stage_key(stage) ==
    IF stage.stage_id # NULL THEN stage.stage_id ELSE "stage_" \o Pad3(stage.order)

\* a document built by extract_entities: the key, the text taken from the YAML
\* (title, description, content_text, ...) and the two timestamps
EntityDoc(key, content, now) ==
    [_key |-> key, content |-> content, created_at |-> now, updated_at |-> now]

\* extract_entities: the documents per collection, in list order; tools,
\* indicators and rules are numbered by counters running over all stages
extract_entities(y, now) ==
    [methodologies |-> <<EntityDoc(y.methodology_id, y.title, now)>>,
     stages     |-> [k \in 1..Len(y.stages) |->
                        EntityDoc(stage_key(y.stages[k]), y.title, now)],
     tools      |-> [n \in 1..SumOver(y.stages, "tools") |->
                        EntityDoc("tool_" \o Pad3(n), y.title, now)],
     indicators |-> [n \in 1..SumOver(y.stages, "indicators") |->
                        EntityDoc("ind_" \o Pad3(n), y.title, now)],
     rules      |-> [n \in 1..SumOver(y.stages, "rules") |->
                        EntityDoc("rule_" \o Pad3(n), y.title, now)]]

Edge(fromCol, fromKey, toCol, toKey, now) ==
    [_from |-> [col |-> fromCol, key |-> fromKey],
     _to |-> [col |-> toCol, key |-> toKey],
     created_at |-> now]

\* the edges of one kind from the stages to their children: the k-th stage
\* points to the entities numbered by the running counter
ChildEdges(y, ents, field, col, now) ==
    Flatten([k \in 1..Len(y.stages) |->
        [c \in 1..y.stages[k][field] |->
            Edge("stages", stage_key(y.stages[k]), col,
                 ents[col][SumOver(SubSeq(y.stages, 1, k - 1), field) + c]._key, now)]])

\* extract_edges
extract_edges(y, ents, now) ==
    [methodology_has_stage |->
        [k \in 1..Len(y.stages) |->
            Edge("methodologies", y.methodology_id, "stages", stage_key(y.stages[k]), now)],
     stage_uses_tool      |-> ChildEdges(y, ents, "tools", "tools", now),
     stage_uses_indicator |-> ChildEdges(y, ents, "indicators", "indicators", now),
     stage_has_rule       |-> ChildEdges(y, ents, "rules", "rules", now),
     indicator_depends_on |-> <<>>]

\* ------------------------------------------------- publisher: ArangoDB client
Has(col, key) == \E d \in col : d._key = key

Get(col, key) == CHOOSE d \in col : d._key = key

\* col.update(doc, merge=True): the fields of doc replace the stored ones
Update(col, doc) == (col \ {Get(col, doc._key)}) \cup {doc}

ZeroStats == [upserted |-> 0, inserted |-> 0, updated |-> 0, errors |-> 0]

RECURSIVE upsert_docs_Overwrite(_, _, _, _, _)
upsert_docs_Overwrite(col, colName, docs, stats, warnings) ==
    IF docs = <<>> THEN [col |-> col, stats |-> stats, warnings |-> warnings]
    ELSE LET doc == [_key |-> docs[1]._key,
                     content |-> docs[1].content,
                     created_at |-> docs[1].created_at,
                     updated_at |-> docs[1].updated_at,
                     entity_type |-> infer_entity_type(colName)]
         IN  IF ~LegalKey(doc._key)
             THEN upsert_docs_Overwrite(col, colName, Tail(docs), [stats EXCEPT !.errors = @ + 1],
                              Append(warnings, [type |-> "entity_upsert_failed",
                                                term_key |-> doc._key]))
             ELSE IF Has(col, doc._key)
             THEN upsert_docs_Overwrite(Update(col, doc),
                              colName, Tail(docs),
                              [stats EXCEPT !.updated = @ + 1, !.upserted = @ + 1], warnings)
             ELSE upsert_docs_Overwrite(col \cup {doc}, colName, Tail(docs),
                              [stats EXCEPT !.inserted = @ + 1, !.upserted = @ + 1], warnings)

RECURSIVE upsert_docs(_, _, _, _, _)
\* the loop "for doc in docs" of upsert_entities; a key the database refuses
\* makes has/insert raise, which the except branch turns into a warning
upsert_docs(col, colName, docs, stats, warnings) ==
    IF docs = <<>> THEN [col |-> col, stats |-> stats, warnings |-> warnings]
    ELSE LET doc == [_key |-> docs[1]._key,
                     content |-> docs[1].content,
                     created_at |-> docs[1].created_at,
                     updated_at |-> docs[1].updated_at,
                     entity_type |-> infer_entity_type(colName)]
         IN  IF ~LegalKey(doc._key)
             THEN upsert_docs(col, colName, Tail(docs), [stats EXCEPT !.errors = @ + 1],
                              Append(warnings, [type |-> "entity_upsert_failed",
                                                term_key |-> doc._key]))
             ELSE IF Has(col, doc._key)
             THEN upsert_docs(Update(col, [doc EXCEPT !.created_at = Get(col, doc._key).created_at]),
                              colName, Tail(docs),
                              [stats EXCEPT !.updated = @ + 1, !.upserted = @ + 1], warnings)
             ELSE upsert_docs(col \cup {doc}, colName, Tail(docs),
                              [stats EXCEPT !.inserted = @ + 1, !.upserted = @ + 1], warnings)

RECURSIVE upsert_entity_cols(_, _, _, _, _)
\* the loop "for col_name, docs in entities.items()" of upsert_entities
\* (collections with no documents are skipped and get no result)
upsert_entity_cols(database, entities, names, results, warnings) ==
    IF names = <<>> THEN [db |-> database, results |-> results, warnings |-> warnings]
    ELSE LET c == names[1]
             r == upsert_docs(database[c], c, entities[c], ZeroStats, warnings)
         IN  IF entities[c] = <<>>
             THEN upsert_entity_cols(database, entities, Tail(names), results, warnings)
             ELSE upsert_entity_cols([database EXCEPT ![c] = r.col], entities, Tail(names),
                                     results \cup {[collection |-> c, stats |-> r.stats]},
                                     r.warnings)

\* upsert_entities: the new database, the per-collection results and the
\* qa_warnings of the bundle
upsert_entities(database, entities) ==
    upsert_entity_cols(database, entities, EntityCollections, {}, <<>>)

edge_key_Timestamped(edge) ==
    md5(DocId(edge._from) \o "|" \o DocId(edge._to) \o "|" \o "related"
          \o "|" \o ToString(edge.created_at))

\* edge_signature = f"{_from}|{_to}|{rel_type}", rel_type defaulting to "related"
edge_key(edge) == md5(DocId(edge._from) \o "|" \o DocId(edge._to) \o "|" \o "related")

GlossaryStub_Defined(key, now) ==
    [_key |-> key, created_at |-> now, updated_at |-> now,
     entity_type |-> "term", status |-> "defined"]

\* the stub inserted for a missing glossary term
GlossaryStub(key, now) ==
    [_key |-> key, created_at |-> now, updated_at |-> now,
     entity_type |-> "term", status |-> "needs_definition"]

RECURSIVE upsert_edge_docs(_, _, _, _, _, _)
\* the loop "for edge in edge_docs" of upsert_edges, with the glossary stub rule
upsert_edge_docs(ecol, glossary, edges, stats, warnings, now) ==
    IF edges = <<>>
    THEN [col |-> ecol, glossary |-> glossary, stats |-> stats, warnings |-> warnings]
    ELSE LET e    == edges[1]
             stub == /\ e._to.col = "glossary_terms"
                     /\ ~Has(glossary, e._to.key)
                     /\ LegalKey(e._to.key)
             g1   == IF stub THEN glossary \cup {GlossaryStub(e._to.key, now)} ELSE glossary
             w1   == IF stub
                     THEN Append(warnings, [type |-> "glossary_term_stub_created",
                                            term_key |-> e._to.key])
                     ELSE warnings
             s1   == IF stub THEN [stats EXCEPT !.created_glossary_stubs = @ + 1] ELSE stats
             doc  == [_key |-> edge_key(e), _from |-> e._from, _to |-> e._to,
                      created_at |-> e.created_at]
             failed == [type |-> "edge_upsert_failed", term_key |-> e._to.key]
         IN  IF e._from = NoId \/ e._to = NoId
             THEN \* "Edge missing _from/_to" is raised before the stub rule
                  upsert_edge_docs(ecol, glossary, Tail(edges),
                                   [stats EXCEPT !.errors = @ + 1],
                                   Append(warnings, failed), now)
             ELSE IF ~LegalKey(e._to.key) \/ ~LegalKey(e._from.key)
             THEN \* glossary.insert or ecol.insert raises; a stub made before stays
                  upsert_edge_docs(ecol, g1, Tail(edges),
                                   [s1 EXCEPT !.errors = @ + 1],
                                   Append(w1, failed), now)
             ELSE IF Has(ecol, doc._key)
             THEN upsert_edge_docs(Update(ecol, doc), g1, Tail(edges),
                                   [s1 EXCEPT !.updated = @ + 1, !.upserted = @ + 1], w1, now)
             ELSE upsert_edge_docs(ecol \cup {doc}, g1, Tail(edges),
                                   [s1 EXCEPT !.inserted = @ + 1, !.upserted = @ + 1], w1, now)

ZeroEdgeStats == [upserted |-> 0, inserted |-> 0, updated |-> 0, errors |-> 0,
                  created_glossary_stubs |-> 0]

RECURSIVE upsert_edge_cols(_, _, _, _, _, _)
\* the loop "for edge_col_name, edge_docs in edges_map.items()" of upsert_edges
upsert_edge_cols(database, edges, names, results, warnings, now) ==
    IF names = <<>> THEN [db |-> database, results |-> results, warnings |-> warnings]
    ELSE LET c == names[1]
             r == upsert_edge_docs(database[c], database["glossary_terms"], edges[c],
                                   ZeroEdgeStats, warnings, now)
         IN  IF edges[c] = <<>>
             THEN upsert_edge_cols(database, edges, Tail(names), results, warnings, now)
             ELSE upsert_edge_cols([database EXCEPT ![c] = r.col, !["glossary_terms"] = r.glossary],
                                   edges, Tail(names),
                                   results \cup {[collection |-> c, stats |-> r.stats]},
                                   r.warnings, now)

\* upsert_edges: edges_map.items() lists the collections of the bundle
upsert_edges(database, edges, now) ==
    upsert_edge_cols(database, edges,
                     SelectSeq(EdgeCollectionOrder, LAMBDA c : c \in DOMAIN edges),
                     {}, <<>>, now)

\* ------------------------------------------------- publisher: Agent E
NoQaFile == [exists |-> FALSE, keys |-> {}, approved |-> "null"]

\* the JSON values tried for the approved field: true, false, null, the string
\* "true" and the number 1
JsonValues == {"true", "false", "null", "\"true\"", "1"}

QaFiles ==
    {NoQaFile}
        \cup {[exists |-> TRUE, keys |-> {}, approved |-> "null"],
              [exists |-> TRUE, keys |-> {"issues_count"}, approved |-> "null"]}
        \cup {[exists |-> TRUE, keys |-> {"approved", "issues_count"}, approved |-> v] :
                v \in JsonValues}

StageOrders == {1, 2}

\* a stage of the YAML: its stage_id (or none), its order and the numbers of
\* tools, indicators and rules listed under it (here the same number of each)
YamlStages ==
    {[stage_id |-> id, order |-> o, tools |-> n, indicators |-> n, rules |-> n] :
        id \in {NULL, "stage_001"}, o \in StageOrders, n \in 0..MaxPerStage}

NoYamlFile == [exists |-> FALSE, methodology_id |-> NULL, title |-> NULL, stages |-> <<>>]

YamlFiles ==
    {NoYamlFile, [exists |-> TRUE, methodology_id |-> NULL, title |-> "v1", stages |-> <<>>]}
        \cup {[exists |-> TRUE, methodology_id |-> "m1", title |-> "v1", stages |-> st] :
                st \in SeqsUpTo(YamlStages, MaxStages)}

EmptyDb == [c \in AllCollections |-> {}]

NoCall == [methodology_id |-> NULL, skip_qa_check |-> FALSE, outcome |-> "none",
           entities |-> {}, edges |-> {},
           entity_warnings |-> <<>>, edge_warnings |-> <<>>]

NoBundle == [c \in {} |-> <<>>]

NoOutline == [stages |-> <<>>, indicators |-> <<>>, rules |-> <<>>]

NoResult == [status |-> "none", errors |-> <<>>]

GateIdle ==
    /\ gateDoc = NoOutline
    /\ gateResult = NoResult
    /\ gateExit = -1
    /\ prevResult = NoResult

NoRawOutline == [stages |-> <<>>, tools |-> <<>>, indicators |-> <<>>, rules |-> <<>>]

NoCompiledYaml ==
    [exists |-> FALSE, id |-> NULL, title |-> NULL, created_at |-> 0,
     stages |-> <<>>, tools |-> <<>>, indicators |-> <<>>, rules |-> <<>>]

CompilerIdle ==
    /\ rawOutline = NoRawOutline
    /\ sourcesMeta = NULL
    /\ compiledYaml = NoCompiledYaml
    /\ docFiles = {}
    /\ compiles = 0

LlmFailed == [ok |-> FALSE, severities |-> <<>>]

\* no qa_result.json: the other fields mean nothing
NoQaResult == [exists |-> FALSE, approved |-> FALSE, issues |-> <<>>,
               summary |-> [blockers |-> 0, majors |-> 0, minors |-> 0]]

ReviewerIdle ==
    /\ precheckIssues = <<>>
    /\ use_llm = FALSE
    /\ llmReply = LlmFailed
    /\ qaResult = NoQaResult
    /\ reviewExit = -1

\* no batch: the command was started by hand
NoBatchArgs == [auto |-> FALSE, books |-> <<>>, batch_id |-> <<"None">>, dirs |-> {}]

BatchIdle ==
    /\ batchArgs = NoBatchArgs
    /\ launched = <<>>
    /\ batchExit = -1

ToolsIdle == GateIdle /\ CompilerIdle /\ ReviewerIdle

PublisherAtRest ==
    /\ yamlFile = NoYamlFile
    /\ db = EmptyDb
    /\ receipt = "absent"
    /\ connects = 0
    /\ calls = 0
    /\ lastCall = NoCall
    /\ edgeBundle = NoBundle

PublisherIdle == qaFile = NoQaFile /\ PublisherAtRest

OrchestratorAtRest ==
    /\ steps = <<>>
    /\ require_gate_pass = TRUE
    /\ skip_qa_for_e = FALSE
    /\ validate_defined = FALSE
    /\ idx = 1
    /\ pc = "done"
    /\ manifest = [steps |-> <<>>, qa |-> QARecord]
    /\ manifestFile = <<dumps([steps |-> <<>>, qa |-> QARecord])>>
    /\ finalFile = "absent"
    /\ exitCode = -1
    /\ gateReport = "absent"
    /\ preferredOutline = "absent"
    /\ legacyOutline = "absent"
    /\ executed = <<>>
    /\ builtOutline = "none"
    /\ compileInput = "none"

OrchestratorIdle == BatchIdle /\ OrchestratorAtRest

ApprovedQaFile == [exists |-> TRUE, keys |-> {"approved", "issues_count"}, approved |-> "true"]

\* publishing any methodology YAML, with the QA report approved or absent
InitPublisher ==
    /\ OrchestratorIdle
    /\ ToolsIdle
    /\ yamlFile \in YamlFiles
    /\ qaFile \in {NoQaFile, ApprovedQaFile}
    /\ db = EmptyDb
    /\ receipt = "absent"
    /\ connects = 0
    /\ calls = 0
    /\ lastCall = NoCall
    /\ edgeBundle = NoBundle

\* publishing a methodology whose id the database accepts as a key or refuses
InitWarnings ==
    /\ OrchestratorIdle
    /\ ToolsIdle
    /\ yamlFile \in {[exists |-> TRUE, methodology_id |-> id, title |-> "v1", stages |-> st] :
                        id \in {"m1"} \cup IllegalKeys, st \in SeqsUpTo(YamlStages, MaxStages)}
    /\ qaFile = ApprovedQaFile
    /\ db = EmptyDb
    /\ receipt = "absent"
    /\ connects = 0
    /\ calls = 0
    /\ lastCall = NoCall
    /\ edgeBundle = NoBundle

SampleYamlFile ==
    [exists |-> TRUE, methodology_id |-> "m1", title |-> "v1",
     stages |-> <<[stage_id |-> "stage_001", order |-> 1,
                   tools |-> 1, indicators |-> 1, rules |-> 1]>>]

\* publishing under any QA report, over a receipt of an earlier publish or none
InitQaCheck ==
    /\ OrchestratorIdle
    /\ ToolsIdle
    /\ yamlFile \in {NoYamlFile, SampleYamlFile,
                      [exists |-> TRUE, methodology_id |-> NULL, title |-> "v1", stages |-> <<>>]}
    /\ qaFile \in QaFiles
    /\ db = EmptyDb
    /\ receipt \in {"absent", "old receipt"}
    /\ connects = 0
    /\ calls = 0
    /\ lastCall = NoCall
    /\ edgeBundle = NoBundle

\* publish_methodology raises before step 3 (connect): nothing but the call changes
PublishRefused(skip) ==
    /\ lastCall' = [NoCall EXCEPT !.skip_qa_check = skip, !.outcome = "raised"]
    /\ UNCHANGED <<db, receipt, connects>>

\* AgentE.publish_methodology(methodology_id, skip_qa_check), y being what
\* yaml.safe_load gives for data/methodologies/<methodology_id>.yaml
PublishFile(y) ==
    /\ calls < MaxPublishes
    /\ calls' = calls + 1
    /\ \E skip \in BOOLEAN :
        IF ~y.exists \/ y.methodology_id = NULL
        THEN PublishRefused(skip)
        ELSE IF ~skip /\ ~check_qa_approval(load_qa_report(qaFile))
        THEN PublishRefused(skip)
        ELSE \E now \in {calls + 1} :
             \E ents \in {extract_entities(y, now)} :
             \E edgs \in {extract_edges(y, ents, now)} :
             \E r1 \in {upsert_entities(db, ents)} :
             \E r2 \in {upsert_edges(r1.db, edgs, now)} :
                 /\ connects' = connects + 1
                 /\ db' = r2.db
                 /\ receipt' = [published_at |-> now, qa_approved |-> ~skip,
                                entities |-> r1.results, edges |-> r2.results,
                                qa_warnings_count |-> Len(r2.warnings)]
                 /\ lastCall' = [methodology_id |-> y.methodology_id,
                                 skip_qa_check |-> skip, outcome |-> "published",
                                 entities |-> r1.results, edges |-> r2.results,
                                 entity_warnings |-> r1.warnings,
                                 edge_warnings |-> r2.warnings]
    /\ UNCHANGED <<yamlFile, qaFile, edgeBundle, orchVars, toolVars>>

Publish == PublishFile(yamlFile)

NextPublisher == Publish

SpecPublisher == InitPublisher /\ [][NextPublisher]_vars

SpecQaCheck == InitQaCheck /\ [][NextPublisher]_vars

SpecWarnings == InitWarnings /\ [][NextPublisher]_vars

\* ------------------------------------------------- publishing again and again
\* the stage lists an author writes without stage_id: none, or one stage with
\* or without tools, indicators and rules
RepublishStages ==
    {<<>>} \cup {<<[stage_id |-> NULL, order |-> 1, tools |-> n, indicators |-> n, rules |-> n]>> :
                    n \in {0, MaxPerStage}}

\* data/methodologies/<id>.yaml of two methodologies, each in two versions
RepublishYamls ==
    {[exists |-> TRUE, methodology_id |-> id, title |-> t, stages |-> st] :
        id \in {"m1", "m2"}, t \in {"v1", "v2"}, st \in RepublishStages}

InitRepublish ==
    /\ OrchestratorIdle
    /\ ToolsIdle
    /\ yamlFile \in RepublishYamls
    /\ qaFile = ApprovedQaFile
    /\ db = EmptyDb
    /\ receipt = "absent"
    /\ connects = 0
    /\ calls = 0
    /\ lastCall = NoCall
    /\ edgeBundle = NoBundle

\* the next "python -m pipeline.agents.agent_e --methodology-id <id>" names
\* another file of data/methodologies, or the same file after an edit
WriteYaml ==
    /\ calls > 0
    /\ calls < MaxPublishes
    /\ yamlFile' \in RepublishYamls \ {yamlFile}
    /\ UNCHANGED <<qaFile, db, receipt, connects, calls, lastCall, edgeBundle,
                   orchVars, toolVars>>

NextRepublish == Publish \/ WriteYaml

SpecRepublish == InitRepublish /\ [][NextRepublish]_vars

\* ------------------------------------------------- a direct caller of upsert_edges
TermKeys == {"t1", "t2"}

\* edges to glossary terms, with or without "_from"
TermEdges ==
    {[_from |-> f, _to |-> [col |-> "glossary_terms", key |-> t], created_at |-> 0] :
        f \in {[col |-> "methodologies", key |-> "m1"], NoId}, t \in TermKeys}

EdgeBundles == [{TermEdgeCollections[k] : k \in 1..Len(TermEdgeCollections)}
                    -> SeqsUpTo(TermEdges, MaxEdges)]

DefinedTerm(key) ==
    [_key |-> key, created_at |-> 0, updated_at |-> 0,
     entity_type |-> "term", status |-> "defined"]

\* a connected client, a glossary with or without the term t1, and a bundle
InitGlossary ==
    /\ OrchestratorIdle
    /\ ToolsIdle
    /\ yamlFile = NoYamlFile
    /\ qaFile = NoQaFile
    /\ \E g \in {{}, {DefinedTerm("t1")}} : db = [EmptyDb EXCEPT !["glossary_terms"] = g]
    /\ receipt = "absent"
    /\ connects = 1
    /\ calls = 0
    /\ lastCall = NoCall
    /\ edgeBundle \in EdgeBundles

\* ArangoDBClient.upsert_edges({"edges": edgeBundle, "qa_warnings": []})
UpsertEdges ==
    /\ calls < MaxPublishes
    /\ calls' = calls + 1
    /\ \E r \in {upsert_edges(db, edgeBundle, calls + 1)} :
        /\ db' = r.db
        /\ lastCall' = [NoCall EXCEPT !.outcome = "upsert_edges", !.edges = r.results,
                                      !.edge_warnings = r.warnings]
    /\ UNCHANGED <<yamlFile, qaFile, receipt, connects, edgeBundle, orchVars, toolVars>>

NextGlossary == UpsertEdges

SpecGlossary == InitGlossary /\ [][NextGlossary]_vars

\* ------------------------------------------------- quality gate
\* A Python str is the sequence of its characters; None is the value below.
None == <<"None">>

Whitespace == {" "}

RECURSIVE lstrip(_)
lstrip(t) == IF t # <<>> /\ t[1] \in Whitespace THEN lstrip(Tail(t)) ELSE t

RECURSIVE rstrip(_)
rstrip(t) ==
    IF t # <<>> /\ t[Len(t)] \in Whitespace THEN rstrip(SubSeq(t, 1, Len(t) - 1)) ELSE t

\* str.strip()
strip(t) == rstrip(lstrip(t))

\* str.lower(), on the letters used here
lower(t) == [k \in 1..Len(t) |-> IF t[k] = "R" THEN "r" ELSE t[k]]

RECURSIVE collapse(_)
\* re.sub(r"\s+", " ", s)
collapse(t) ==
    IF t = <<>> THEN <<>>
    ELSE IF t[1] \in Whitespace
    THEN <<" ">> \o collapse(lstrip(t))
    ELSE <<t[1]>> \o collapse(Tail(t))

\* _is_empty
is_empty(v) == v = None \/ strip(v) = <<>>

\* _normalize_name: (name or "").strip().lower(), whitespace runs collapsed
normalize_name(name) == collapse(lower(strip(IF name = None THEN <<>> ELSE name)))

ALLOWED_SEVERITY == {"critical", "warning", "info", "low"}

\* a stage.order value: a YAML integer, a YAML boolean (an int for Python's
\* isinstance, True being equal to 1) or a string
IntOrder(n) == [type |-> "int", value |-> n]

BoolOrder == [type |-> "bool", value |-> 1]

StrOrder == [type |-> "str", value |-> 0]

\* isinstance(o, int)
isinstance_int(o) == o.type \in {"int", "bool"}

\* the number of elements of a sequence that satisfy a test
Count(q, Test(_)) == Len(SelectSeq(q, Test))

Min(S) == CHOOSE x \in S : \A y \in S : x <= y

Max(S) == CHOOSE x \in S : \A y \in S : x >= y

order_ok_NoMax(orders, n) ==
    LET uniq == {orders[k] : k \in 1..Len(orders)}
    IN  Cardinality(uniq) = n /\ Min(uniq) = 1

\* "len(uniq) == n_stages and min(orders) == 1 and max(orders) == n_stages"
order_ok(orders, n) ==
    LET uniq == {orders[k] : k \in 1..Len(orders)}
    IN  Cardinality(uniq) = n /\ Min(uniq) = 1 /\ Max(uniq) = n

range_checked_Always(bad_order) == TRUE

\* "if bad_order: ... else: <the range check>"
range_checked(bad_order) == ~bad_order

\* the number of names already seen earlier in the list
Dupes(names) == Cardinality({k \in 1..Len(names) : \E j \in 1..(k - 1) : names[j] = names[k]})

\* run_gate: the status and the error codes, in the order they are appended
run_gate(d) ==
    LET n_stages == Len(d.stages)
        n_ind    == Len(d.indicators)
        bad_order == \E k \in 1..n_stages : ~isinstance_int(d.stages[k].order)
        orders   == [k \in 1..n_stages |-> d.stages[k].order.value]
        empty_stage_desc == Count(d.stages, LAMBDA st : is_empty(st.description))
        empty_ind_desc   == Count(d.indicators, LAMBDA i : is_empty(i.description))
        names    == [k \in 1..n_ind |-> normalize_name(d.indicators[k].name)]
        errors ==
            (IF n_stages < 1 THEN <<"BQG_STAGE_COUNT">> ELSE <<>>)
            \o (IF n_stages > 0 /\ empty_stage_desc > 0 THEN <<"BQG_STAGE_DESC_EMPTY">> ELSE <<>>)
            \o (IF n_stages > 0 /\ bad_order THEN <<"BQG_STAGE_ORDER_TYPE">> ELSE <<>>)
            \o (IF n_stages > 0 /\ range_checked(bad_order) /\ ~order_ok(orders, n_stages)
                THEN <<"BQG_STAGE_ORDER_RANGE">> ELSE <<>>)
            \* empty_ind_desc / n_ind > 0.10
            \o (IF n_ind > 0 /\ empty_ind_desc * 10 > n_ind
                THEN <<"BQG_IND_DESC_COVERAGE">> ELSE <<>>)
            \o (IF \E k \in 1..Len(d.rules) : d.rules[k] \notin ALLOWED_SEVERITY
                THEN <<"BQG_SEVERITY_ENUM">> ELSE <<>>)
            \o (IF n_ind > 0 /\ Dupes(names) > 0 THEN <<"BQG_IND_DUPES">> ELSE <<>>)
    IN  [status |-> IF Len(errors) = 0 THEN "PASS" ELSE "FAIL", errors |-> errors]

\* main: raise SystemExit(0 if result["status"] == "PASS" else 2)
gate_exit(result) == IF result.status = "PASS" THEN 0 ELSE 2

\* ---- the outlines tried
StageDescriptions == {<<" ">>, <<"d">>}

StageOrderValues == {IntOrder(0), IntOrder(1), IntOrder(2), IntOrder(3), BoolOrder, StrOrder}

GateStages == [description : StageDescriptions, order : StageOrderValues]

Indicator(name, description) == [name |-> name, description |-> description]

\* n further indicators with names of their own and a description
RECURSIVE Fillers(_)
Fillers(n) ==
    IF n = 0 THEN <<>>
    ELSE Append(Fillers(n - 1), Indicator(<<"f", ToString(n)>>, <<"d">>))

FillerCounts == {0, 8, 9}

IndicatorLists ==
    {named \o Fillers(n) :
        named \in {<<>>,
                   <<Indicator(<<"R">>, <<"d">>)>>,
                   <<Indicator(<<"R">>, None)>>,
                   <<Indicator(<<"R">>, <<"d">>), Indicator(<<" ", "r">>, <<"d">>)>>,
                   <<Indicator(<<"R", " ", " ", "q">>, <<"d">>), Indicator(<<"r", " ", "q">>, <<>>)>>,
                   <<Indicator(<<"R">>, <<"d">>), Indicator(<<"q">>, <<" ">>)>>,
                   <<Indicator(None, <<"d">>), Indicator(<<" ">>, <<"d">>)>>},
        n \in FillerCounts}

\* severities of the rules: valid, wrong case, unknown, missing
RuleLists == {<<>>, <<"info">>, <<"info", "Info">>, <<"high", "low">>, <<"None">>}

GoodStage == [description |-> <<"d">>, order |-> IntOrder(1)]

\* every stage list with a few indicator and rule lists, and every indicator
\* and rule list with one stage or none
Outlines ==
    [stages : SeqsUpTo(GateStages, MaxGateStages),
     indicators : {<<>>, <<Indicator(<<"R">>, None)>>},
     rules : {<<"info">>, <<"high", "low">>}]
      \cup [stages : {<<>>, <<GoodStage>>},
            indicators : IndicatorLists,
            rules : RuleLists]

\* ---- editing an outline so that a reported error goes away, and only that
\* BQG_STAGE_COUNT: a first stage with a description and order 1 is added
FixStageCount(d) ==
    [d EXCEPT !.stages = <<GoodStage>>]

\* BQG_STAGE_DESC_EMPTY: the blank descriptions are written
FixStageDesc(d) ==
    [d EXCEPT !.stages = [k \in 1..Len(@) |->
        IF is_empty(@[k].description) THEN [@[k] EXCEPT !.description = <<"d">>] ELSE @[k]]]

\* BQG_STAGE_ORDER_TYPE: an order that is not an int becomes the stage's position
FixOrderType(d) ==
    [d EXCEPT !.stages = [k \in 1..Len(@) |->
        IF isinstance_int(@[k].order) THEN @[k] ELSE [@[k] EXCEPT !.order = IntOrder(k)]]]

\* BQG_STAGE_ORDER_RANGE: the stages are numbered 1..N
FixOrderRange(d) ==
    [d EXCEPT !.stages = [k \in 1..Len(@) |-> [@[k] EXCEPT !.order = IntOrder(k)]]]

\* BQG_IND_DESC_COVERAGE: the blank descriptions are written
FixIndDesc(d) ==
    [d EXCEPT !.indicators = [k \in 1..Len(@) |->
        IF is_empty(@[k].description) THEN [@[k] EXCEPT !.description = <<"d">>] ELSE @[k]]]

\* BQG_SEVERITY_ENUM: a severity outside the enum becomes "info"
FixSeverity(d) ==
    [d EXCEPT !.rules = [k \in 1..Len(@) |->
        IF @[k] \in ALLOWED_SEVERITY THEN @[k] ELSE "info"]]

\* BQG_IND_DUPES: an indicator whose name was seen before gets a name of its own
FixDupes(d) ==
    [d EXCEPT !.indicators = [k \in 1..Len(@) |->
        IF \E j \in 1..(k - 1) : normalize_name(@[j].name) = normalize_name(@[k].name)
        THEN [@[k] EXCEPT !.name = <<"u", ToString(k)>>] ELSE @[k]]]

FixOne(d, code) ==
    CASE code = "BQG_STAGE_COUNT" -> FixStageCount(d)
      [] code = "BQG_STAGE_DESC_EMPTY" -> FixStageDesc(d)
      [] code = "BQG_STAGE_ORDER_TYPE" -> FixOrderType(d)
      [] code = "BQG_STAGE_ORDER_RANGE" -> FixOrderRange(d)
      [] code = "BQG_IND_DESC_COVERAGE" -> FixIndDesc(d)
      [] code = "BQG_SEVERITY_ENUM" -> FixSeverity(d)
      [] code = "BQG_IND_DUPES" -> FixDupes(d)

RECURSIVE FixAll(_, _)
FixAll(d, codes) == IF codes = <<>> THEN d ELSE FixAll(FixOne(d, codes[1]), Tail(codes))

InitGate ==
    /\ OrchestratorIdle
    /\ PublisherIdle
    /\ ReviewerIdle
    /\ CompilerIdle
    /\ gateDoc \in Outlines
    /\ gateResult = NoResult
    /\ gateExit = -1
    /\ prevResult = NoResult

\* python -m pipeline.agents.agent_b.quality_gate --input <outline>
RunGate ==
    /\ gateExit = -1
    /\ \E result \in {run_gate(gateDoc)} :
        /\ gateResult' = result
        /\ gateExit' = gate_exit(result)
    /\ UNCHANGED <<gateDoc, prevResult, orchVars, pubVars, compilerVars, reviewVars, batchVars>>

\* the outline is edited to fix some of the reported errors, and the gate is
\* run on the edited outline
FixAndRunGate ==
    /\ gateResult.status = "FAIL"
    /\ prevResult = NoResult
    /\ \E keep \in SUBSET {k \in 1..Len(gateResult.errors) : TRUE} :
        /\ keep # {}
        /\ \E d2 \in {FixAll(gateDoc, SelectSeq(gateResult.errors,
                        LAMBDA c : \E k \in keep : gateResult.errors[k] = c))} :
           \E result \in {run_gate(d2)} :
            /\ gateDoc' = d2
            /\ gateResult' = result
            /\ gateExit' = gate_exit(result)
    /\ prevResult' = gateResult
    /\ UNCHANGED <<orchVars, pubVars, compilerVars, reviewVars, batchVars>>

NextGate == RunGate \/ FixAndRunGate

SpecGate == InitGate /\ [][NextGate]_vars

\* ------------------------------------------------- compiler
BookId == "book"

\* an entry of a list of the outline: a mapping, or something else (a bare
\* string), which normalize_outline passes over
DictItem == [dict |-> TRUE, order |-> StrOrder]

StageItem(o) == [dict |-> TRUE, order |-> o]

OtherItem == [dict |-> FALSE, order |-> StrOrder]

entity_index_Kept(pos, kept) == kept

\* "for idx, s in enumerate(raw_stages, start=1)": the index counts every
\* entry of the list, also those passed over
entity_index(pos, kept) == pos

\* f"{kind}_{idx:03d}"
entity_id(kind, pos) == kind \o "_" \o Pad3(pos)

\* the number of mappings among the first k entries
KeptUpTo(items, k) == Cardinality({j \in 1..k : items[j].dict})

\* "int(order_val) if isinstance(order_val, int) else None"
stage_order(o) == IF isinstance_int(o) THEN o.value ELSE -1

\* one loop of normalize_outline: the entries that are mappings, with their ids
normalize_list(items, kind) ==
    LET all == [k \in 1..Len(items) |->
                    [dict |-> items[k].dict,
                     id |-> entity_id(kind, entity_index(k, KeptUpTo(items, k))),
                     order |-> stage_order(items[k].order)]]
        kept == SelectSeq(all, LAMBDA e : e.dict)
    IN  [k \in 1..Len(kept) |-> [id |-> kept[k].id, order |-> kept[k].order]]

normalize_outline_Stamped(raw, book_id, sources_meta, now) ==
    [exists |-> TRUE, id |-> book_id,
     title |-> ToString(now),
     created_at |-> now,
     stages |-> normalize_list(raw.stages, "stage"),
     tools |-> normalize_list(raw.tools, "tool"),
     indicators |-> normalize_list(raw.indicators, "ind"),
     rules |-> normalize_list(raw.rules, "rule")]

\* normalize_outline(...).normalized_yaml
normalize_outline(raw, book_id, sources_meta, now) ==
    [exists |-> TRUE, id |-> book_id,
     title |-> IF sources_meta # NULL THEN sources_meta ELSE book_id,
     created_at |-> now,
     stages |-> normalize_list(raw.stages, "stage"),
     tools |-> normalize_list(raw.tools, "tool"),
     indicators |-> normalize_list(raw.indicators, "ind"),
     rules |-> normalize_list(raw.rules, "rule")]

\* render_all: README.md and one file per compiled entity, named by its id
render_all(norm) ==
    {"README.md"}
        \cup {norm.stages[k].id : k \in 1..Len(norm.stages)}
        \cup {norm.tools[k].id : k \in 1..Len(norm.tools)}
        \cup {norm.indicators[k].id : k \in 1..Len(norm.indicators)}
        \cup {norm.rules[k].id : k \in 1..Len(norm.rules)}

\* ---- the outlines compiled
StageItems == {StageItem(IntOrder(2)), StageItem(StrOrder), OtherItem}

LongLen == 1000

\* an outline with a thousand stages
LongOutline == [NoRawOutline EXCEPT !.stages = [k \in 1..LongLen |-> StageItem(IntOrder(k))]]

RawOutlines ==
    [stages : SeqsUpTo(StageItems, MaxItems),
     tools : SeqsUpTo({DictItem, OtherItem}, MaxItems),
     indicators : {<<>>, <<DictItem>>},
     rules : {<<>>, <<OtherItem, DictItem>>}]
      \cup {LongOutline}

InitCompiler ==
    /\ OrchestratorIdle
    /\ PublisherIdle
    /\ GateIdle
    /\ ReviewerIdle
    /\ rawOutline \in RawOutlines
    /\ sourcesMeta \in {NULL, "Title"}
    /\ \E leftover \in BOOLEAN :
        /\ compiledYaml = IF leftover
                          THEN [NoCompiledYaml EXCEPT !.exists = TRUE, !.id = BookId,
                                                      !.title = "Old title"]
                          ELSE NoCompiledYaml
        /\ docFiles = IF leftover THEN {"README.md", "stage_009"} ELSE {}
    /\ compiles = 0

\* compile_methodology(book_id)
Compile ==
    /\ compiles < MaxCompiles
    /\ compiles' = compiles + 1
    /\ \E norm \in {normalize_outline(rawOutline, BookId, sourcesMeta, compiles + 1)} :
        /\ compiledYaml' = norm
        /\ docFiles' = docFiles \cup render_all(norm)
    /\ UNCHANGED <<rawOutline, sourcesMeta, orchVars, pubVars, gateVars, reviewVars, batchVars>>

NextCompiler == Compile

SpecCompiler == InitCompiler /\ [][NextCompiler]_vars

\* ------------------------------------------------- compiling, then publishing
\* what agent_e reads in a file written by the compiler: the top-level keys are
\* metadata, classification and structure, so 'methodology_id' is not in data
\* and data.get('stages', []) is empty
load_compiled(compiled) ==
    [exists |-> compiled.exists, methodology_id |-> NULL, title |-> NULL, stages |-> <<>>]

\* outlines whose stages carry source order values, QA approved, nothing published
InitCompilePublish ==
    /\ OrchestratorIdle
    /\ GateIdle
    /\ ReviewerIdle
    /\ PublisherAtRest
    /\ qaFile = ApprovedQaFile
    /\ rawOutline \in RawOutlines \ {LongOutline}
    /\ sourcesMeta \in {NULL, "Title"}
    /\ compiledYaml = NoCompiledYaml
    /\ docFiles = {}
    /\ compiles = 0

\* "python -m pipeline.agents.agent_e --methodology-id <book_id>" on the file
\* data/methodologies/<book_id>.yaml that compile_methodology wrote
PublishCompiled == PublishFile(load_compiled(compiledYaml))

NextCompilePublish == Compile \/ PublishCompiled

SpecCompilePublish == InitCompilePublish /\ [][NextCompilePublish]_vars

\* ------------------------------------------------- QA reviewer (Agent D)
SEVERITIES == {"BLOCKER", "MAJOR", "MINOR"}

Issue(id, severity) == [id |-> id, severity |-> severity]

\* what the reasoning layer may put in an issue's "severity": one of the three
\* names, another spelling, or nothing at all
LlmSeverities == SEVERITIES \cup {"blocker", "missing"}

\* LLMReviewer.review: the issues of the reply, numbered from 1, severity taken
\* as given and MINOR when the reply has none; no issue when anything raises
llm_issues(reply) ==
    IF ~reply.ok THEN <<>>
    ELSE [k \in 1..Len(reply.severities) |->
            Issue(<<"LLM", k>>, IF reply.severities[k] = "missing" THEN "MINOR"
                                ELSE reply.severities[k])]

decide_Lenient(issues) ==
    LET blockers == Count(issues, LAMBDA i : i.severity = "BLOCKER")
        majors   == Count(issues, LAMBDA i : i.severity = "MAJOR")
    IN  IF blockers >= 1 THEN FALSE
        ELSE IF majors >= 4 THEN FALSE
        ELSE TRUE

decide(issues) ==
    LET blockers == Count(issues, LAMBDA i : i.severity = "BLOCKER")
        majors   == Count(issues, LAMBDA i : i.severity = "MAJOR")
    IN  IF blockers >= 1 THEN FALSE
        ELSE IF majors >= 3 THEN FALSE
        ELSE TRUE

\* main() of the reviewer from "Decide & score" on: qa_result.json
build_qa_result(issues) ==
    [exists |-> TRUE,
     approved |-> decide(issues),
     issues |-> issues,
     summary |-> [blockers |-> Count(issues, LAMBDA i : i.severity = "BLOCKER"),
                  majors   |-> Count(issues, LAMBDA i : i.severity = "MAJOR"),
                  minors   |-> Count(issues, LAMBDA i : i.severity = "MINOR")]]

review_exit(approved) == IF approved THEN 0 ELSE 1

\* precheck_empty_formulas(compiled, threshold=0.7), on the methodology type and
\* the indicators' formulas: empty_ratio >= 1.0 and empty_ratio > 0.7 in integers
FORMULA_TYPES == {"diagnostic", "analysis", "optimization"}

precheck_empty_formulas(methodology_type, formulas) ==
    LET total_count == Len(formulas)
        empty_count == Count(formulas, LAMBDA f : strip(f) = <<>>)
    IN  IF total_count = 0 THEN <<>>
        ELSE IF methodology_type \notin FORMULA_TYPES THEN <<>>
        ELSE IF empty_count >= total_count
             THEN <<Issue(<<"EMPTY-FORM-001">>, "BLOCKER")>>
        ELSE IF empty_count * 10 > total_count * 7
             THEN <<Issue(<<"EMPTY-FORM-002">>, "MAJOR")>>
        ELSE <<>>

PrecheckIssueLists ==
    SeqsUpTo({Issue(<<"PRE">>, sev) : sev \in SEVERITIES}, MaxIssues)

LlmReplies ==
    {LlmFailed} \cup {[ok |-> TRUE, severities |-> q] : q \in SeqsUpTo(LlmSeverities, MaxLlmIssues)}

InitReviewer ==
    /\ OrchestratorIdle
    /\ PublisherIdle
    /\ GateIdle
    /\ CompilerIdle
    /\ precheckIssues \in PrecheckIssueLists
    /\ use_llm \in BOOLEAN
    /\ llmReply \in LlmReplies
    /\ qaResult = NoQaResult
    /\ reviewExit = -1

\* python -m pipeline.agents.agent_d.reviewer --book <id> [--use-llm]
Review ==
    /\ reviewExit = -1
    /\ \E issues \in {precheckIssues \o (IF use_llm THEN llm_issues(llmReply) ELSE <<>>)} :
        /\ qaResult' = build_qa_result(issues)
        /\ reviewExit' = review_exit(decide(issues))
    /\ UNCHANGED <<precheckIssues, use_llm, llmReply, orchVars, pubVars, gateVars, compilerVars,
                   batchVars>>

NextReviewer == Review

SpecReviewer == InitReviewer /\ [][NextReviewer]_vars

\* ------------------------------------------------------------- Init
StepLists == SeqsUpTo(ALLOWED_STEPS, MaxSteps) \cup {DefaultSteps}

OutlineStates == {"absent", "PASS", "FAIL"}

\* OrchestratorRunner.__init__ and the first lines of run()
RunStart ==
    /\ idx = 1
    /\ pc = "run"
    /\ manifest = [steps |-> <<>>, qa |-> QARecord]
    /\ manifestFile = <<dumps([steps |-> <<>>, qa |-> QARecord])>>
    /\ finalFile = "absent"
    /\ exitCode = -1
    /\ gateReport = "absent"
    /\ executed = <<>>
    /\ builtOutline = "none"
    /\ compileInput = "none"

Init ==
    /\ steps \in StepLists
    /\ require_gate_pass \in BOOLEAN
    /\ skip_qa_for_e \in BOOLEAN
    /\ validate_defined = FALSE
    /\ RunStart
    /\ BatchIdle
    /\ preferredOutline \in OutlineStates
    /\ legacyOutline \in OutlineStates
    /\ PublisherIdle
    /\ ToolsIdle

\* ---- runs on a methodology the reviewer has given its verdict on
WithoutD == <<"B", "C", "Gate", "G", "E", "F">>

ReviewedStepLists == {DefaultSteps, WithoutD, <<"E">>, <<"D", "E">>}

Formula == <<"a", "/", "b">>

NoFormula == <<>>

BlankFormula == <<" ">>

\* five indicators: all without a formula, four of five without, all with one
FormulaLists ==
    {<<NoFormula, BlankFormula, NoFormula, NoFormula, NoFormula>>,
     <<NoFormula, Formula, NoFormula, BlankFormula, NoFormula>>,
     <<Formula, Formula, Formula, Formula, Formula>>}

RefusedQaFile == [exists |-> TRUE, keys |-> {"approved", "issues_count"}, approved |-> "false"]

\* the reviewer has run, prechecks only, on a methodology whose only issues are
\* those of its formulas; data/qa/<id>.json is absent, approved or refused
InitReviewed ==
    /\ steps \in ReviewedStepLists
    /\ require_gate_pass \in BOOLEAN
    /\ skip_qa_for_e \in BOOLEAN
    /\ validate_defined = FALSE
    /\ RunStart
    /\ BatchIdle
    /\ preferredOutline \in OutlineStates
    /\ legacyOutline \in {"absent", "PASS"}
    /\ PublisherAtRest
    /\ qaFile \in {NoQaFile, ApprovedQaFile, RefusedQaFile}
    /\ GateIdle
    /\ CompilerIdle
    /\ \E methodology_type \in {"diagnostic", "planning"}, formulas \in FormulaLists :
        /\ precheckIssues = precheck_empty_formulas(methodology_type, formulas)
        /\ use_llm = FALSE
        /\ llmReply = LlmFailed
        /\ qaResult = build_qa_result(precheckIssues)
        /\ reviewExit = review_exit(decide(precheckIssues))

\* ------------------------------------------------------------- run()
\* main() of agent_e as a command: exit code 1 when publish_methodology raises,
\* which it does for a QA report that is not approved unless --skip-qa is given
\* and may do for any other reason (YAML, database); exit code 0 otherwise
agent_e_exit(skip_qa, file) ==
    IF ~skip_qa /\ ~check_qa_approval(load_qa_report(file)) THEN {1} ELSE {0, 1}

\* _record_step(name, func) followed by the "if not ok" branch of run().
\* m and pre are the manifest and the manifest writes left by func itself.
RecordStep(name, ok, m, pre, reason) ==
    LET m1 == add_step(m, StepRecord(name, IF ok THEN "ok" ELSE "fail",
                                     IF ok THEN NULL ELSE "error"))
    IN  /\ manifest' = m1
        /\ manifestFile' = <<Last(manifestFile)>> \o pre \o write_json(m1)
        /\ executed' = Append(executed, name)
        /\ IF halt_on_fail(ok)
           THEN /\ finalFile' = reason
                /\ exitCode' = ExitRuntimeFail
                /\ pc' = "done"
                /\ idx' = idx
           ELSE /\ idx' = idx + 1
                /\ UNCHANGED <<finalFile, exitCode, pc>>

AtStep(name) == pc = "run" /\ idx <= Len(steps) /\ steps[idx] = name

\* step_B: raises without blocks.jsonl or when the builder raises; writes the
\* built outline only if outline_<book_id>.yaml does not exist yet
StepB ==
    /\ AtStep("B")
    /\ \E built \in {"raise", "PASS", "FAIL"} :
        /\ builtOutline' = IF built # "raise" THEN built ELSE builtOutline
        /\ preferredOutline' = IF built # "raise" /\ preferredOutline = "absent"
                               THEN built ELSE preferredOutline
        /\ RecordStep("B", built # "raise", manifest, <<>>, "Step B failed")
    /\ UNCHANGED <<steps, require_gate_pass, skip_qa_for_e, validate_defined, compileInput,
                   gateReport, legacyOutline, pubVars, toolVars>>

\* step_C: compile_methodology(book_id) reads work/<book_id>/outline.yaml and
\* raises FileNotFoundError without it; with it the compiler may still raise
StepC ==
    /\ AtStep("C")
    /\ compileInput' = legacyOutline
    /\ \E ok \in (IF legacyOutline = "absent" THEN {FALSE} ELSE BOOLEAN) :
        RecordStep("C", ok, manifest, <<>>, "Step C failed")
    /\ UNCHANGED <<steps, require_gate_pass, skip_qa_for_e, validate_defined, builtOutline,
                   gateReport, preferredOutline, legacyOutline, pubVars, toolVars>>

\* "from pipeline.agents.agent_d.reviewer import validate_methodology": the
\* module reviewer.py defines no such name, so the import statement raises
\* ImportError each time step_D is called.  Were the name defined, it would
\* review the compiled methodology in-process and return the QA result, or raise
validate_methodology(defined, issues) ==
    IF defined
    THEN {[raised |-> TRUE, report |-> NoQaResult],
          [raised |-> FALSE, report |-> build_qa_result(issues)]}
    ELSE {[raised |-> TRUE, report |-> NoQaResult]}

\* data.get(key) on a QA result, as the JSON text of the value: its top-level
\* keys are book_id, approved, score, summary, issues, metrics, llm_findings,
\* generated_at and reviewer
qa_get(data, key) ==
    CASE key = "approved" -> IF data.approved THEN "true" ELSE "false"
      [] OTHER -> NULL

\* the review step_D asks for finds the issues the reviewer would
found_issues == precheckIssues \o (IF use_llm THEN llm_issues(llmReply) ELSE <<>>)

\* step_D: the import or the review raises, or the report is written to
\* work/<book_id>/qa/qa_result.json unless that file exists, and the file's
\* approved, blockers and warnings go to the manifest, which is written
StepD ==
    /\ AtStep("D")
    /\ \E res \in validate_methodology(validate_defined, found_issues) :
        IF res.raised
        THEN /\ RecordStep("D", FALSE, manifest, <<>>, "Step D failed")
             /\ UNCHANGED qaResult
        ELSE LET data == IF qaResult.exists THEN qaResult ELSE res.report
                 m == [manifest EXCEPT !.qa.approved = qa_get(data, "approved"),
                                       !.qa.blockers = qa_get(data, "blockers"),
                                       !.qa.warnings = qa_get(data, "warnings")]
             IN  /\ qaResult' = data
                 /\ RecordStep("D", TRUE, m, write_json(m), "Step D failed")
    /\ UNCHANGED <<steps, require_gate_pass, skip_qa_for_e, validate_defined, builtOutline, compileInput, gateReport,
                   preferredOutline, legacyOutline, pubVars, gateVars, compilerVars,
                   precheckIssues, use_llm, llmReply, reviewExit, batchVars>>

StepGate_NoStatus ==
    /\ AtStep("Gate")
    /\ LET outline == find_outline(preferredOutline, legacyOutline)
       IN  IF outline = "absent"
           THEN /\ RecordStep("Gate", FALSE, manifest, <<>>, "Gate step failed")
                /\ UNCHANGED gateReport
           ELSE LET m  == manifest
                    m1 == add_step(m, StepRecord("Gate", "ok", NULL))
                    sk == remaining_steps(steps)
                IN  /\ gateReport' = outline
                    /\ executed' = Append(executed, "Gate")
                    /\ IF gate_blocks(require_gate_pass, outline)
                       THEN /\ manifest' = add_skipped(m1, sk)
                            /\ manifestFile' = <<Last(manifestFile)>> \o write_json(m)
                                                 \o write_json(m1) \o skipped_writes(m1, sk)
                            /\ finalFile' = "Gate FAIL"
                            /\ exitCode' = ExitGateFail
                            /\ pc' = "done"
                            /\ idx' = idx
                       ELSE /\ manifest' = m1
                            /\ manifestFile' = <<Last(manifestFile)>> \o write_json(m)
                                                 \o write_json(m1)
                            /\ idx' = idx + 1
                            /\ UNCHANGED <<finalFile, exitCode, pc>>
    /\ UNCHANGED <<steps, require_gate_pass, skip_qa_for_e, validate_defined, builtOutline, compileInput, preferredOutline, legacyOutline, pubVars, toolVars>>

\* step_Gate and the policy check that follows it in run()
StepGate ==
    /\ AtStep("Gate")
    /\ LET outline == find_outline(preferredOutline, legacyOutline)
       IN  IF outline = "absent"
           THEN /\ RecordStep("Gate", FALSE, manifest, <<>>, "Gate step failed")
                /\ UNCHANGED gateReport
           ELSE LET m  == [manifest EXCEPT !.qa.gate_status = outline]
                    m1 == add_step(m, StepRecord("Gate", "ok", NULL))
                    sk == remaining_steps(steps)
                IN  /\ gateReport' = outline
                    /\ executed' = Append(executed, "Gate")
                    /\ IF gate_blocks(require_gate_pass, outline)
                       THEN /\ manifest' = add_skipped(m1, sk)
                            /\ manifestFile' = <<Last(manifestFile)>> \o write_json(m)
                                                 \o write_json(m1) \o skipped_writes(m1, sk)
                            /\ finalFile' = "Gate FAIL"
                            /\ exitCode' = ExitGateFail
                            /\ pc' = "done"
                            /\ idx' = idx
                       ELSE /\ manifest' = m1
                            /\ manifestFile' = <<Last(manifestFile)>> \o write_json(m)
                                                 \o write_json(m1)
                            /\ idx' = idx + 1
                            /\ UNCHANGED <<finalFile, exitCode, pc>>
    /\ UNCHANGED <<steps, require_gate_pass, skip_qa_for_e, validate_defined, builtOutline, compileInput, preferredOutline, legacyOutline, pubVars, toolVars>>

StepG ==
    /\ AtStep("G")
    /\ \E ok \in BOOLEAN : RecordStep("G", ok, manifest, <<>>, "Step G failed")
    /\ UNCHANGED <<steps, require_gate_pass, skip_qa_for_e, validate_defined, builtOutline, compileInput, gateReport, preferredOutline, legacyOutline, pubVars, toolVars>>

\* step_E: python -m pipeline.agents.agent_e <id> [--skip-qa]; the step is ok
\* when the command exits with 0
StepE ==
    /\ AtStep("E")
    /\ \E code \in agent_e_exit(skip_qa_for_e, qaFile) :
        RecordStep("E", code = 0, manifest, <<>>, "Step E failed")
    /\ UNCHANGED <<steps, require_gate_pass, skip_qa_for_e, validate_defined, builtOutline, compileInput, gateReport, preferredOutline, legacyOutline, pubVars, toolVars>>

StepF ==
    /\ AtStep("F")
    /\ \E ok \in BOOLEAN : RecordStep("F", ok, manifest, <<>>, "Step F failed")
    /\ UNCHANGED <<steps, require_gate_pass, skip_qa_for_e, validate_defined, builtOutline, compileInput, gateReport, preferredOutline, legacyOutline, pubVars, toolVars>>

\* the loop is exhausted: final.json "Completed", return 0
Finish ==
    /\ pc = "run"
    /\ idx > Len(steps)
    /\ finalFile' = "Completed"
    /\ exitCode' = ExitSuccess
    /\ pc' = "done"
    /\ manifestFile' = <<Last(manifestFile)>>
    /\ UNCHANGED <<steps, require_gate_pass, skip_qa_for_e, validate_defined, builtOutline, compileInput, idx, manifest, gateReport,
                   preferredOutline, legacyOutline, executed, pubVars, toolVars>>

Next == StepB \/ StepC \/ StepD \/ StepGate \/ StepG \/ StepE \/ StepF \/ Finish

Spec == Init /\ [][Next]_vars

SpecReviewed == InitReviewed /\ [][Next]_vars

\* ---- runs in which step D can call the review: validate_methodology as the
\* orchestrator expects it, over a qa_result.json of an earlier run or none
InProcessStepLists == {DefaultSteps, <<"D", "E">>, <<"D">>}

FoundIssueLists ==
    {<<>>, <<Issue(<<"PRE">>, "MINOR")>>, <<Issue(<<"EMPTY-FORM-001">>, "BLOCKER")>>}

InitInProcess ==
    /\ steps \in InProcessStepLists
    /\ require_gate_pass \in BOOLEAN
    /\ skip_qa_for_e \in BOOLEAN
    /\ validate_defined = TRUE
    /\ RunStart
    /\ BatchIdle
    /\ preferredOutline \in OutlineStates
    /\ legacyOutline \in {"absent", "PASS"}
    /\ PublisherAtRest
    /\ qaFile \in {NoQaFile, ApprovedQaFile}
    /\ GateIdle
    /\ CompilerIdle
    /\ precheckIssues \in FoundIssueLists
    /\ use_llm = FALSE
    /\ llmReply = LlmFailed
    /\ qaResult \in {NoQaResult} \cup {build_qa_result(old) : old \in FoundIssueLists}
    /\ reviewExit = -1

SpecInProcess == InitInProcess /\ [][Next]_vars

\* ---- runs on a book whose work directory holds no outline yet
FreshStepLists ==
    {<<"B", "C", "Gate">>, DefaultSteps, <<"B", "Gate", "G", "E", "F">>, <<"B", "D">>,
     <<"B", "Gate", "C">>}

InitFresh ==
    /\ steps \in FreshStepLists
    /\ require_gate_pass \in BOOLEAN
    /\ skip_qa_for_e \in BOOLEAN
    /\ validate_defined = FALSE
    /\ RunStart
    /\ BatchIdle
    /\ preferredOutline = "absent"
    /\ legacyOutline = "absent"
    /\ PublisherAtRest
    /\ qaFile \in {NoQaFile, ApprovedQaFile}
    /\ ToolsIdle

SpecFresh == InitFresh /\ [][Next]_vars

\* ------------------------------------------------- batch runner (run_batch.py)
\* the pieces of "--books" between commas
BookTokens == {<<"a">>, <<" ", "a">>, <<"b">>, <<>>}

\* the names sources/ may hold, as sorted() orders them
SourceNames == << <<".", "g">>, <<"a">> , <<"b">> >>

\* sources/: for some of the names a directory, with or without extracted/blocks.jsonl
DirListings ==
    {{[name |-> SourceNames[k], blocks |-> f[k]] : k \in S} :
        S \in SUBSET DOMAIN SourceNames, f \in [DOMAIN SourceNames -> BOOLEAN]}

\* discover_books(sources_dir)
discover_books(dirs) ==
    SelectSeq(SourceNames,
              LAMBDA n : n[1] # "." /\ [name |-> n, blocks |-> TRUE] \in dirs)

\* [b.strip() for b in args.books.split(",") if b.strip()]
parse_books(tokens) ==
    SelectSeq([k \in 1..Len(tokens) |-> strip(tokens[k])], LAMBDA b : b # <<>>)

\* the book list of main()
book_list(args) == IF args.auto THEN discover_books(args.dirs) ELSE parse_books(args.books)

\* args.batch_id or f"batch_{int(time.time())}"
batch_id(args) ==
    IF args.batch_id \in {None, <<>>} THEN <<"batch_", "time">> ELSE args.batch_id

\* run_book: run_id = f"{run_id_prefix}_{book_id}"
run_id(run_id_prefix, book_id) == run_id_prefix \o <<"_">> \o book_id

InitBatch ==
    /\ OrchestratorAtRest
    /\ PublisherIdle
    /\ GateIdle
    /\ CompilerIdle
    /\ ReviewerIdle
    /\ batchArgs \in
          [auto : {FALSE}, books : SeqsUpTo(BookTokens, MaxBooks),
           batch_id : {None, <<"x">>}, dirs : {{}}]
            \cup [auto : {TRUE}, books : {<<>>}, batch_id : {None, <<"x">>}, dirs : DirListings]
    /\ launched = <<>>
    /\ batchExit = -1

\* one pass of "for book_id in books": run_book starts the orchestrator with
\* --book-id and --run-id and waits for its exit code
RunBook ==
    /\ batchExit = -1
    /\ Len(launched) < Len(book_list(batchArgs))
    /\ \E code \in {ExitSuccess, ExitRuntimeFail, ExitGateFail} :
        LET book == book_list(batchArgs)[Len(launched) + 1]
        IN  launched' = Append(launched, [book_id |-> book,
                                          run_id |-> run_id(batch_id(batchArgs), book),
                                          exit_code |-> code])
    /\ UNCHANGED <<batchArgs, batchExit, orchVars, pubVars, gateVars, compilerVars, reviewVars>>

\* main returns: 1 without books or when a run did not exit with 0, else 0
BatchReturn ==
    /\ batchExit = -1
    /\ Len(launched) = Len(book_list(batchArgs))
    /\ batchExit' = IF launched = <<>> THEN 1
                    ELSE IF \E k \in 1..Len(launched) : launched[k].exit_code # ExitSuccess
                    THEN 1 ELSE 0
    /\ UNCHANGED <<batchArgs, launched, orchVars, pubVars, gateVars, compilerVars, reviewVars>>

NextBatch == RunBook \/ BatchReturn

SpecBatch == InitBatch /\ [][NextBatch]_vars

\* ------------------------------------------------- vocabulary of the claims
Records == manifest.steps

HasFail == \E k \in 1..Len(Records) : Records[k].status = "fail"

HasSkipped == \E k \in 1..Len(Records) : Records[k].status = "skipped"

NamesOf(recs) == [k \in 1..Len(recs) |-> recs[k].name]

RanRecords(recs) == SelectSeq(recs, LAMBDA r : r.status \in {"ok", "fail"})

SkippedRecords(recs) == SelectSeq(recs, LAMBDA r : r.status = "skipped")

\* the steps requested after the loop position
RequestedAfter(k) == SubSeq(steps, k + 1, Len(steps))

OnlyGE(q) == SelectSeq(q, LAMBDA r : r \in {"G", "E"})

EOkRecorded == \E k \in 1..Len(Records) : Records[k].name = "E" /\ Records[k].status = "ok"

Complete(c) == c.valid_json

\* C1: once a step is recorded with status fail, that record is the last one,
\* the failed step is the last step executed, final.json names it and run
\* has returned 1.
C1_HaltOnFirstFail ==
    \A k \in 1..Len(Records) :
        Records[k].status = "fail" =>
            /\ k = Len(Records)
            /\ Len(executed) = k
            /\ Last(executed) = Records[k].name
            /\ idx <= Len(steps)
            /\ steps[idx] = Records[k].name
            /\ pc = "done"
            /\ exitCode = 1
            /\ finalFile = (IF Records[k].name = "Gate" THEN "Gate step failed"
                            ELSE "Step " \o Records[k].name \o " failed")

\* a step other than the first has failed while further steps were requested
C1_Witness ==
    /\ HasFail
    /\ Len(Records) >= 2
    /\ idx < Len(steps)
    /\ pc = "done"

\* C2: when a Gate step has run with report status FAIL under
\* require_gate_pass, the run has ended right after it: Gate is recorded ok,
\* qa.gate_status is FAIL, the G and E steps requested after it are recorded
\* as skipped with a reason, final.json says "Gate FAIL" and run returned 2.
C2_GateFailStops ==
    (require_gate_pass /\ gateReport = "FAIL") =>
        LET n == Len(executed)
            after == SubSeq(Records, n + 1, Len(Records))
        IN  /\ pc = "done"
            /\ exitCode = 2
            /\ finalFile = "Gate FAIL"
            /\ n >= 1
            /\ Last(executed) = "Gate"
            /\ steps[idx] = "Gate"
            /\ Records[n] = StepRecord("Gate", "ok", NULL)
            /\ manifest.qa.gate_status = "FAIL"
            /\ \A k \in 1..Len(after) :
                   after[k].status = "skipped" /\ after[k].error # NULL
            /\ IsSuffix(OnlyGE(RequestedAfter(idx)), NamesOf(after))
            /\ (steps = <<"Gate">> => Len(Records) = 1)

\* Gate FAIL under the policy with both G and E requested after Gate
C2_Witness ==
    /\ require_gate_pass
    /\ gateReport = "FAIL"
    /\ pc = "done"
    /\ NamesOf(SkippedRecords(Records)) = <<"G", "E">>

GateVerdictBlocks == require_gate_pass /\ gateReport \notin {"absent", "PASS"}

AllRequestedOk ==
    /\ executed = steps
    /\ Len(Records) = Len(steps)
    /\ \A k \in 1..Len(Records) : Records[k].status = "ok"

C4_Original ==
    /\ \A k \in 1..Len(manifestFile) : Complete(manifestFile[k])
    /\ Len(Last(manifestFile).steps) = Len(executed)

\* C4 amended: every write of manifest.json completes within the step
\* transition that starts it, and at every step boundary the file is
\* complete, equals the in-memory manifest, and holds one record per step
\* executed so far plus one per step recorded as skipped.
C4_ManifestAtBoundaries ==
    /\ Complete(Last(manifestFile))
    /\ Complete(manifestFile[1])
    /\ Last(manifestFile).steps = manifest.steps
    /\ Last(manifestFile).qa = manifest.qa
    /\ Len(RanRecords(Last(manifestFile).steps)) = Len(executed)
    /\ Len(Last(manifestFile).steps)
         = Len(executed) + Len(SkippedRecords(Last(manifestFile).steps))

\* a step boundary after a Gate FAIL that added skipped records
C4_Witness ==
    /\ pc = "done"
    /\ Len(executed) >= 2
    /\ Len(Last(manifestFile).steps) > Len(executed)
    /\ \E k \in 1..Len(manifestFile) : ~Complete(manifestFile[k])

\* C5: over the successive complete contents of manifest.json the steps array
\* only grows at its end, and the executed records are in execution order.
C5_AppendOnly ==
    /\ \A a, b \in 1..Len(manifestFile) :
           (a < b /\ Complete(manifestFile[a]) /\ Complete(manifestFile[b]))
               => IsPrefix(manifestFile[a].steps, manifestFile[b].steps)
    /\ Complete(Last(manifestFile))
    /\ NamesOf(RanRecords(Last(manifestFile).steps)) = executed
    /\ IsPrefix(RanRecords(Last(manifestFile).steps), Last(manifestFile).steps)

\* three steps were executed and written one after the other
C5_Witness ==
    /\ Complete(Last(manifestFile))
    /\ Len(Last(manifestFile).steps) >= 3
    /\ Len(executed) >= 3
    /\ Len(manifestFile) >= 3

C7_Original ==
    (require_gate_pass /\ pc = "done"
        /\ (\E k \in 1..Len(steps) : steps[k] = "Gate")
        /\ (\E k \in 1..Len(steps) : steps[k] = "E"))
        => ~(manifest.qa.gate_status = "FAIL" /\ EOkRecorded)

\* C7 amended: under require_gate_pass nothing is executed after a Gate step
\* whose verdict is FAIL, and for every order in which each E is requested
\* after each Gate the manifest never holds gate_status FAIL with an E ok.
C7_FailBlocksLaterE ==
    require_gate_pass =>
        /\ manifest.qa.gate_status = "FAIL" => (pc = "done" /\ Last(executed) = "Gate")
        /\ (\A i, j \in 1..Len(steps) :
               (steps[i] = "Gate" /\ steps[j] = "E") => i < j)
             => ~(manifest.qa.gate_status = "FAIL" /\ EOkRecorded)

\* Gate FAIL under the policy with E requested after Gate: E was not run
C7_Witness ==
    /\ require_gate_pass
    /\ pc = "done"
    /\ manifest.qa.gate_status = "FAIL"
    /\ \E i, j \in 1..Len(steps) : steps[i] = "Gate" /\ steps[j] = "E" /\ i < j
    /\ ~EOkRecorded

QaExactlyApproved ==
    qaFile.exists /\ "approved" \in qaFile.keys /\ qaFile.approved = "true"

\* C9: a publish_methodology call without skip_qa_check, made when the QA
\* report is absent or its approved field is not exactly true, raises without
\* connecting: the database and the publish receipt are left as they were.
C9_RefuseUnapproved ==
    [][(calls' = calls + 1 /\ ~lastCall'.skip_qa_check /\ ~QaExactlyApproved)
          => (/\ lastCall'.outcome = "raised"
              /\ connects' = connects
              /\ db' = db
              /\ receipt' = receipt)]_vars

\* a publish of a loadable methodology refused over a QA report whose approved
\* field is the string "true", with an earlier receipt on disk
C9_Witness ==
    /\ lastCall.outcome = "raised"
    /\ ~lastCall.skip_qa_check
    /\ yamlFile = SampleYamlFile
    /\ qaFile.exists
    /\ qaFile.approved = "\"true\""
    /\ receipt = "old receipt"
    /\ connects = 0

KeysIn(col) == {d._key : d \in col}

\* the number of documents a publish submits to a collection
Submitted(c) ==
    CASE c = "methodologies" -> 1
      [] c \in {"stages", "methodology_has_stage"} -> Len(yamlFile.stages)
      [] c \in {"tools", "stage_uses_tool"} -> SumOver(yamlFile.stages, "tools")
      [] c \in {"indicators", "stage_uses_indicator"} -> SumOver(yamlFile.stages, "indicators")
      [] c \in {"rules", "stage_has_rule"} -> SumOver(yamlFile.stages, "rules")
      [] OTHER -> 0

NoDuplicates ==
    /\ \A c \in AllCollections : \A d1, d2 \in db[c] : d1._key = d2._key => d1 = d2
    /\ \A k \in 1..Len(EdgeCollections) :
           \A e1, e2 \in db[EdgeCollections[k]] :
               (e1._from = e2._from /\ e1._to = e2._to) => e1 = e2

BundleEdges == Flatten([k \in 1..Len(TermEdgeCollections) |-> edgeBundle[TermEdgeCollections[k]]])

\* the glossary keys the edges of the bundle point to
ReferencedTerms(edges) ==
    {edges[k]._to.key : k \in {j \in 1..Len(edges) : edges[j]._to.col = "glossary_terms"}}

\* the number of bundle edges that point to the term
ReferencesTo(edges, key) ==
    Cardinality({k \in 1..Len(edges) : edges[k]._to = [col |-> "glossary_terms", key |-> key]})

WellFormed(edges) == SelectSeq(edges, LAMBDA e : e._from # NoId /\ e._to # NoId)

StubWarnings(warnings, key) ==
    Cardinality({k \in 1..Len(warnings) :
        warnings[k] = [type |-> "glossary_term_stub_created", term_key |-> key]})

\* after the call the glossary holds exactly one document with the key, a
\* stub, and the warnings of the call hold exactly one stub entry for it
OneStub(key) ==
    /\ Cardinality({d \in db'["glossary_terms"] : d._key = key}) = 1
    /\ \A d \in db'["glossary_terms"] : d._key = key => d.status = "needs_definition"
    /\ StubWarnings(lastCall'.edge_warnings, key) = 1

GateRan == gateResult # NoResult

Codes(result) == {result.errors[k] : k \in 1..Len(result.errors)}

\* blank: absent, or nothing but whitespace
Blank(v) == v = None \/ \A k \in 1..Len(v) : v[k] \in Whitespace

OrdersOf(d) == {d.stages[k].order : k \in 1..Len(d.stages)}

AllIntegerOrders(d) == \A o \in OrdersOf(d) : o.type = "int"

\* the order values are a permutation of 1..N
PermutationOrders(d) ==
    /\ AllIntegerOrders(d)
    /\ {o.value : o \in OrdersOf(d)} = 1..Len(d.stages)

\* the tabled conditions that the outline violates, by error code
Violated(d) ==
    (IF Len(d.stages) >= 1 THEN {} ELSE {"BQG_STAGE_COUNT"})
    \cup (IF \E k \in 1..Len(d.stages) : Blank(d.stages[k].description)
          THEN {"BQG_STAGE_DESC_EMPTY"} ELSE {})
    \cup (IF AllIntegerOrders(d) THEN {} ELSE {"BQG_STAGE_ORDER_TYPE"})
    \cup (IF PermutationOrders(d) THEN {} ELSE {"BQG_STAGE_ORDER_RANGE"})
    \cup (IF 10 * Count(d.indicators, LAMBDA i : Blank(i.description)) <= Len(d.indicators)
          THEN {} ELSE {"BQG_IND_DESC_COVERAGE"})
    \cup (IF \A k \in 1..Len(d.rules) : d.rules[k] \in {"critical", "warning", "info", "low"}
          THEN {} ELSE {"BQG_SEVERITY_ENUM"})
    \cup (IF \E j, k \in 1..Len(d.indicators) :
                j # k /\ normalize_name(d.indicators[j].name) = normalize_name(d.indicators[k].name)
          THEN {"BQG_IND_DUPES"} ELSE {})

\* C12 as stated: run_gate returns PASS exactly when the outline violates none
\* of the seven tabled conditions, and FAIL otherwise with one error code per
\* violated condition; the CLI exits 0 on PASS and 2 on FAIL.
C12_Original ==
    GateRan =>
        /\ gateResult.status \in {"PASS", "FAIL"}
        /\ (gateResult.status = "PASS") <=> (Violated(gateDoc) = {})
        /\ Codes(gateResult) = Violated(gateDoc)
        /\ Len(gateResult.errors) = Cardinality(Violated(gateDoc))
        /\ gateExit = (IF gateResult.status = "PASS" THEN 0 ELSE 2)

Surfaced == Codes(gateResult') \ Codes(gateResult)

C20_OrderRange ==
    (GateRan /\ Len(gateDoc.stages) >= 1 /\ AllIntegerOrders(gateDoc)) =>
        /\ ("BQG_STAGE_ORDER_RANGE" \in Codes(gateResult)) <=> ~PermutationOrders(gateDoc)
        /\ ("BQG_STAGE_ORDER_RANGE" \in Codes(gateResult)) => gateResult.status = "FAIL"
        /\ Len(SelectSeq(gateResult.errors, LAMBDA c : c = "BQG_STAGE_ORDER_RANGE")) <= 1

\* two described stages with orders 1 and 3: the error is reported, status FAIL
C20_Witness ==
    /\ GateRan
    /\ prevResult = NoResult
    /\ Len(gateDoc.stages) = 2
    /\ gateDoc.stages[1].order = IntOrder(1)
    /\ gateDoc.stages[2].order = IntOrder(3)
    /\ \A k \in 1..2 : gateDoc.stages[k].description = <<"d">>
    /\ Codes(gateResult) = {"BQG_STAGE_ORDER_RANGE"}
    /\ gateResult.status = "FAIL"
    /\ gateExit = 2

\* ------------------------------------------------- claims on the compiler
Kinds == {"stage", "tool", "ind", "rule"}

ThreeDigits == {ToString(a) \o ToString(b) \o ToString(c) : a, b, c \in 0..9}

\* the ids matched by the reviewer's ID_RE: ^<kind>_\d{3}$
MatchedIds == [kind \in Kinds |-> {kind \o "_" \o ddd : ddd \in ThreeDigits}]

RawList(kind) ==
    CASE kind = "stage" -> rawOutline.stages
      [] kind = "tool" -> rawOutline.tools
      [] kind = "ind" -> rawOutline.indicators
      [] kind = "rule" -> rawOutline.rules

CompiledIds(kind) ==
    LET list == CASE kind = "stage" -> compiledYaml.stages
                  [] kind = "tool" -> compiledYaml.tools
                  [] kind = "ind" -> compiledYaml.indicators
                  [] kind = "rule" -> compiledYaml.rules
    IN  [k \in 1..Len(list) |-> list[k].id]

\* the positions, in the outline's list, of the entries that are compiled
CompiledPositions(kind) ==
    SelectSeq([k \in 1..Len(RawList(kind)) |-> k], LAMBDA k : RawList(kind)[k].dict)

\* every compiled entity has the id <kind>_<position padded to 3 digits>, and
\* the ids of a kind are pairwise different
PositionalIds(kind) ==
    LET ids == CompiledIds(kind)
        pos == CompiledPositions(kind)
    IN  /\ Len(ids) = Len(pos)
        /\ \A j \in 1..Len(ids) : ids[j] = kind \o "_" \o Pad3(pos[j])
        /\ Cardinality({ids[j] : j \in 1..Len(ids)}) = Len(ids)

Compiled == compiles >= 1 /\ compiledYaml.exists

WithoutCreatedAt(y) == [y EXCEPT !.created_at = 0]

Reviewed == reviewExit # -1

LlmContributed == use_llm /\ llmReply.ok

\* the number of issues of one severity among those the prechecks and, when it
\* was asked for and answered, the reasoning layer contributed
NumberOf(sev) ==
    Cardinality({k \in DOMAIN precheckIssues : precheckIssues[k].severity = sev})
    + (IF LlmContributed
       THEN Cardinality({k \in DOMAIN llmReply.severities : llmReply.severities[k] = sev})
       ELSE 0)

\* C16: the verdict written to qa_result.json is approved exactly when no
\* contributed issue is a BLOCKER and fewer than three are MAJOR, counting the
\* issues of the prechecks and of the reasoning layer together; nothing else,
\* MINOR issues included, enters the verdict
C16_Verdict ==
    Reviewed =>
        /\ qaResult.exists
        /\ qaResult.approved = ((NumberOf("BLOCKER") = 0) /\ (NumberOf("MAJOR") < 3))

\* a review refused only because the two layers' MAJOR issues add up to three,
\* with a MINOR issue among them
C16_Witness ==
    /\ Reviewed
    /\ LlmContributed
    /\ NumberOf("BLOCKER") = 0
    /\ NumberOf("MAJOR") = 3
    /\ NumberOf("MINOR") >= 1
    /\ \E k \in DOMAIN llmReply.severities : llmReply.severities[k] = "MAJOR"
    /\ qaResult.approved = FALSE

\* ------------------------------------------------- claims on the release summary
FullPipeline == steps = DefaultSteps

UserVisibleFailure == pc = "done" /\ exitCode \in {ExitRuntimeFail, ExitGateFail}

FExecuted == \E k \in 1..Len(executed) : executed[k] = "F"

\* C17: a full-pipeline run (B, C, D, Gate, G, E, F) that has ended with exit
\* code 1 or 2 has executed step F
C17_Original == (FullPipeline /\ UserVisibleFailure) => FExecuted

\* ------------------------------------------------- claims on a refused methodology
VerdictRefused == qaResult.exists /\ qaResult.approved = FALSE

IncludesD == \E k \in 1..Len(steps) : steps[k] = "D"

DRecord(k) == Records[k].name = "D"

DExecuted == \E k \in 1..Len(executed) : executed[k] = "D"

\* C18: when the reviewer's verdict on the methodology is approved=false, a run
\* that executes step D records it with status fail and returns 1, and a run
\* whose steps do not include D, started without --skip-qa, never records
\* step E as ok
C18_Original ==
    VerdictRefused =>
        /\ DExecuted =>
            /\ \E k \in 1..Len(Records) : DRecord(k) /\ Records[k].status = "fail"
            /\ pc = "done"
            /\ exitCode = ExitRuntimeFail
        /\ (~IncludesD /\ ~skip_qa_for_e) => ~EOkRecorded

\* ------------------------------------------------- claims on the publish receipt
Published == lastCall.outcome = "published"

\* C19: the warning count of the receipt written by a publish run is the number
\* of warnings appended while upserting entities plus the number appended while
\* upserting edges
C19_Original ==
    Published =>
        receipt.qa_warnings_count = Len(lastCall.entity_warnings) + Len(lastCall.edge_warnings)

\* ------------------------------------------------- claims on the manifest's qa summary
GateOkRecorded == \E k \in 1..Len(Records) : Records[k].name = "Gate" /\ Records[k].status = "ok"

\* C21: whenever the manifest holds a Gate record with status ok, qa.gate_status,
\* in memory and in manifest.json, is the status of the report
\* b_quality_gate.json that the run's last Gate step wrote
C21_GateStatusIsReport ==
    GateOkRecorded =>
        /\ gateReport # "absent"
        /\ manifest.qa.gate_status = gateReport
        /\ Last(manifestFile).qa.gate_status = gateReport

\* a Gate step recorded ok on a failing outline; the run went on under the
\* policy that lets it
C21_Witness ==
    /\ GateOkRecorded
    /\ ~require_gate_pass
    /\ gateReport = "FAIL"
    /\ manifest.qa.gate_status = "FAIL"
    /\ Len(Records) >= 2

DOkRecorded == \E k \in 1..Len(Records) : DRecord(k) /\ Records[k].status = "ok"

NumberFound(sev) ==
    Cardinality({k \in DOMAIN found_issues : found_issues[k].severity = sev})

\* C22: after step D is recorded ok, the manifest's qa.approved, qa.blockers and
\* qa.warnings are the verdict, the number of BLOCKER issues and the number of
\* other issues of the review made in this run
C22_Original ==
    DOkRecorded =>
        /\ manifest.qa.approved = (IF NumberFound("BLOCKER") = 0 /\ NumberFound("MAJOR") < 3
                                   THEN "true" ELSE "false")
        /\ manifest.qa.blockers = ToString(NumberFound("BLOCKER"))
        /\ manifest.qa.warnings = ToString(NumberFound("MAJOR") + NumberFound("MINOR"))

\* ------------------------------------------------- C23
EntityCollectionNames == {EntityCollections[k] : k \in 1..Len(EntityCollections)}

JustPublished == calls' = calls + 1 /\ lastCall'.outcome = "published"

\* the keys the call in progress hands to upsert_entities for collection c
SuppliedKeys(c) ==
    {extract_entities(yamlFile, calls + 1)[c][k]._key :
        k \in 1..Len(extract_entities(yamlFile, calls + 1)[c])}

ChildCollections == EntityCollectionNames \ {"methodologies"}

\* the call before this one published another methodology
OtherMethodologyPublished ==
    /\ lastCall.outcome = "published"
    /\ lastCall.methodology_id # yamlFile.methodology_id

\* C29: publishing a methodology leaves the stage, tool, indicator and rule
\* documents that the previous call wrote for a different methodology in the
\* graph with their content.
C29_Original ==
    [][JustPublished /\ OtherMethodologyPublished =>
        \A c \in ChildCollections :
            \A d \in db[c] :
                d.updated_at = calls =>
                    Has(db'[c], d._key) /\ Get(db'[c], d._key).content = d.content]_vars
\* ------------------------------------------------- C24
\* every entity of the compiled methodology has a document under its compiled id
CompiledIdsAreKeys(database) ==
    \A c \in ChildCollections :
        \A k \in 1..Len(compiledYaml[c]) : Has(database[c], compiledYaml[c][k].id)

\* C24: publishing a compiled methodology upserts, for each of its stages,
\* tools, indicators and rules, a document whose _key is the id the compiler
\* gave it (its position), whatever the stage's source order value.
C24_Original ==
    [][calls' = calls + 1 /\ compiledYaml.exists => CompiledIdsAreKeys(db')]_vars
\* ------------------------------------------------- C25
\* the verdict of the review that step D made in this run
VerdictOfThisRun == decide(found_issues)

\* C25: in a run that executes D and then E without --skip-qa, step E publishes
\* (is recorded ok) only when the verdict D produced in this run is approved.
C25_Original ==
    (DOkRecorded /\ ~skip_qa_for_e /\ EOkRecorded) => VerdictOfThisRun
\* ------------------------------------------------- C26
\* C26: any two runs launched by one batch have different run ids (so
\* different run directories) and different book ids.
C26_Original ==
    \A i, j \in 1..Len(launched) :
        i # j => /\ launched[i].run_id # launched[j].run_id
                 /\ launched[i].book_id # launched[j].book_id
\* ------------------------------------------------- C27
CExecuted == \E k \in 1..Len(executed) : executed[k] = "C"

\* C27: in a run that starts with step B on a work directory without an outline
\* file, step C compiles, and step Gate validates, the outline that step B wrote.
C27_Original ==
    /\ CExecuted => compileInput = builtOutline
    /\ GateOkRecorded => gateReport = builtOutline

\* ------------------------------------------------- C28
BOkRecorded == \E k \in 1..Len(Records) : Records[k].name = "B" /\ Records[k].status = "ok"

\* C28: once step B is recorded ok, work/<book_id>/outline_<book_id>.yaml holds
\* the outline the builder returned in this run.
C28_Original == BOkRecorded => preferredOutline = builtOutline
\* ------------------------------------------------- C30
\* the shape of one manifest m (steps and qa)
ManifestShape(m) ==
    LET recs == m.steps
    IN  /\ \A k \in 1..Len(recs) : recs[k].status = "fail" => k = Len(recs)
        /\ \A k \in 1..Len(recs) :
              recs[k].status = "skipped" =>
                  /\ \E g \in 1..(k - 1) : recs[g].name = "Gate" /\ recs[g].status = "ok"
                  /\ require_gate_pass
                  /\ m.qa.gate_status \notin {NULL, "PASS"}
        /\ \A j, k \in 1..Len(recs) :
              (j < k /\ recs[j].status \in {"fail", "skipped"}) => recs[k].status # "ok"

\* C30: in every manifest of a run, in memory or written to manifest.json, at
\* most one record is a fail and it is the last one; a skipped record comes
\* only after a Gate record with status ok, under require_gate_pass and a
\* gate_status other than PASS; no ok record follows a fail or a skipped record.
C30_ManifestShape ==
    /\ ManifestShape(manifest)
    /\ \A k \in 1..Len(manifestFile) :
          manifestFile[k].valid_json => ManifestShape(manifestFile[k])

\* a run stopped by the gate: ok records, then the skipped ones, all written
C30_Witness ==
    /\ pc = "done"
    /\ HasSkipped
    /\ Len(Records) >= 3
    /\ Records[1].status = "ok"
    /\ Last(manifestFile).steps = Records
====
